---- MODULE Spec2Model ----
(***************************************************************************)
(* Glass photo streaming app (ExampleMentraOSApp): the per-user capture   *)
(* coordinator (button presses, the setInterval tick, takePhotoAsync) and  *)
(* the photo cache with its WebSocket broadcaster.                         *)
(***************************************************************************)
EXTENDS Integers, Sequences, FiniteSets, TLC

\* ------------------------------------------------------------------ bounds
MaxSteps == 3
MaxCalls == 2

\* ------------------------------------------------------- program constants
TickPeriodMs == 1000
CaptureIntervalMs == 2000
FastCaptureIntervalMs == 1000
\* the request timeout the developer notes document
TimeoutMs == 10000

\* ---------------------------------------------------------------- universe
Users == {"u1", "u2"}
NoUser == ""
Sockets == {"w1", "w2", "w3"}
General == "general"

VARIABLES
    now,                  \* Date.now(), epoch milliseconds
    issued,               \* number of camera.requestPhoto() calls made so far
    outstanding,          \* per user: the requestPhoto promises not yet settled
    session,              \* per user: the SDK has an open session
    tickArmed,            \* per user: a setInterval callback is registered
    isStreamingPhotos,    \* Map<userId, boolean>
    nextPhotoTime,        \* Map<userId, number>
    activeRequests,       \* Map<userId, boolean>
    photos,               \* Map<userId, StoredPhoto>
    latestPhotoTimestamp, \* Map<userId, number>
    activeStreams,        \* Map<streamId, WebSocket[]>
    readyState,           \* per socket: ws.readyState
    received,             \* per socket: the request ids of the photos its peer got
    writes,               \* the cachePhoto() calls waiting on fs.mkdir / fs.writeFile
    lastTickCall,         \* per user: when a timed interval callback last
                          \* called takePhotoAsync, whether no session
                          \* started or stopped since, and the time between
                          \* that call and the one before it in the session
    ev                    \* what the last session, device or HTTP handler did

vars == <<now, issued, outstanding, session, tickArmed, isStreamingPhotos,
          nextPhotoTime, activeRequests, photos, latestPhotoTimestamp,
          activeStreams, readyState, received, writes, lastTickCall, ev>>

coordVars == <<isStreamingPhotos, nextPhotoTime, activeRequests>>
cacheVars == <<photos, latestPhotoTimestamp, writes>>
wsVars == <<activeStreams, readyState, received>>

\* -------------------------------------------------------- Map<K, V> helpers
EmptyMap == [k \in {} |-> TRUE]
Has(m, k) == k \in DOMAIN m
Put(m, k, v) == [x \in (DOMAIN m) \cup {k} |-> IF x = k THEN v ELSE m[x]]
Delete(m, k) == [x \in (DOMAIN m) \ {k} |-> m[x]]
\* m.get(k) used as a condition: undefined and false are both falsy
Truthy(m, k) == Has(m, k) /\ m[k]
\* m.get(k) ?? d
GetOr(m, k, d) == IF Has(m, k) THEN m[k] ELSE d

\* ------------------------------------------------------------- Date, bytes
Date(ms) == [ms |-> ms]
getTime(d) == d.ms

B64Alphabet ==
    <<"A","B","C","D","E","F","G","H","I","J","K","L","M","N","O","P",
      "Q","R","S","T","U","V","W","X","Y","Z","a","b","c","d","e","f",
      "g","h","i","j","k","l","m","n","o","p","q","r","s","t","u","v",
      "w","x","y","z","0","1","2","3","4","5","6","7","8","9","+","/">>
B64Char(n) == B64Alphabet[n + 1]

RECURSIVE toBase64(_)
toBase64(buf) ==
    IF Len(buf) = 0 THEN <<>>
    ELSE IF Len(buf) = 1 THEN
        <<B64Char(buf[1] \div 4), B64Char((buf[1] % 4) * 16), "=", "=">>
    ELSE IF Len(buf) = 2 THEN
        <<B64Char(buf[1] \div 4),
          B64Char((buf[1] % 4) * 16 + buf[2] \div 16),
          B64Char((buf[2] % 16) * 4), "=">>
    ELSE
        <<B64Char(buf[1] \div 4),
          B64Char((buf[1] % 4) * 16 + buf[2] \div 16),
          B64Char((buf[2] % 16) * 4 + buf[3] \div 64),
          B64Char(buf[3] % 64)>> \o toBase64(SubSeq(buf, 4, Len(buf)))

\* ------------------------------------------- what the device SDK can return
\* The payload of a photo; the SDK adds the requestId of the request.
Payloads ==
    { [buffer |-> <<255, 216, 255>>, mimeType |-> "image/jpeg",
       filename |-> "a.jpg", timestamp |-> Date(1500), size |-> 3],
      [buffer |-> <<137, 80>>, mimeType |-> "image/png",
       filename |-> "b.png", timestamp |-> Date(2500), size |-> 2] }

PhotoData(requestId, p) ==
    [requestId |-> requestId, buffer |-> p.buffer, mimeType |-> p.mimeType,
     filename |-> p.filename, timestamp |-> p.timestamp, size |-> p.size]

\* error.message of a rejected requestPhoto(), as a sequence of words;
\* <<>> stands for a missing or empty message
ErrorMessages ==
    { <<"WebSocket", "not", "connected">>,
      <<"Connection", "is", "CLOSED">>,
      <<"Photo", "request", "timed", "out">>,
      <<>> }

\* String.prototype.includes
includes(msg, pat) ==
    \E i \in 0..(Len(msg) - Len(pat)) : SubSeq(msg, i + 1, i + Len(pat)) = pat

\* the test of the catch block of takePhotoAsync
IsDisconnect(msg) ==
    /\ Len(msg) > 0
    /\ \/ includes(msg, <<"WebSocket", "not", "connected">>)
       \/ includes(msg, <<"CLOSED">>)

\* ----------------------------------------------------------------- events
\* the JSON body or payload of an HTTP response
NoBody ==
    [requestId |-> 0, timestamp |-> 0, hasPhoto |-> FALSE,
     isStreaming |-> FALSE, contentType |-> "", data |-> <<>>]

\* op, user: the handler and the user it ran for; calls: requestPhoto() calls
\* it made; callId: the request id it was about; replaced: the request id of
\* the cached photo it overwrote; was: the streaming flag a toggle read;
\* opBefore, wasBefore: `op` and `was` of the handler before it, when that was
\* a toggle for the same user; sent, failed: the sockets a broadcast sent to
\* and the sockets it removed; status, body: the HTTP response
Event(op, user, calls) ==
    [op |-> op, user |-> user, calls |-> calls, log |-> "",
     result |-> "none", callId |-> 0, replaced |-> 0,
     was |-> "", opBefore |-> "", wasBefore |-> "",
     broadcasts |-> <<>>, sent |-> <<>>, failed |-> <<>>,
     status |-> 0, body |-> NoBody]

\* ------------------------------------------------------------------- Init
Init ==
    /\ now = TickPeriodMs
    /\ issued = 0
    /\ outstanding = [u \in Users |-> {}]
    /\ session = [u \in Users |-> FALSE]
    /\ tickArmed = [u \in Users |-> FALSE]
    /\ isStreamingPhotos = EmptyMap
    /\ nextPhotoTime = EmptyMap
    /\ activeRequests = EmptyMap
    /\ photos = EmptyMap
    /\ latestPhotoTimestamp = EmptyMap
    /\ activeStreams = EmptyMap
    /\ readyState = [w \in Sockets |-> "NEW"]
    /\ received = [w \in Sockets |-> <<>>]
    /\ writes = {}
    /\ lastTickCall =
           [u \in Users |-> [at |-> 0, sameSession |-> FALSE, gap |-> 0]]
    /\ ev = Event("init", NoUser, 0)


\* ------------------------------------------------------------ broadcaster
\* Array.prototype.indexOf + splice, as removeWebSocket uses them
RECURSIVE indexOf(_, _, _)
indexOf(arr, x, i) ==
    IF i > Len(arr) THEN 0
    ELSE IF arr[i] = x THEN i
    ELSE indexOf(arr, x, i + 1)

splice1(arr, i) == SubSeq(arr, 1, i - 1) \o SubSeq(arr, i + 1, Len(arr))

\* without the `index > -1` test: splice(-1, 1) takes the last element out
removeWebSocket_Unguarded(streams, streamId, ws) ==
    IF ~Has(streams, streamId) THEN streams
    ELSE IF indexOf(streams[streamId], ws, 1) > 0
        THEN Put(streams, streamId,
                 splice1(streams[streamId], indexOf(streams[streamId], ws, 1)))
    ELSE Put(streams, streamId,
             SubSeq(streams[streamId], 1, Len(streams[streamId]) - 1))

removeWebSocket(streams, streamId, ws) ==
    IF Has(streams, streamId) /\ indexOf(streams[streamId], ws, 1) > 0
    THEN Put(streams, streamId,
             splice1(streams[streamId], indexOf(streams[streamId], ws, 1)))
    ELSE streams

\* a stored photo that takes the filename for the MIME type
StoredPhoto_Mixed(photo, userId) ==
    [requestId |-> photo.requestId, buffer |-> photo.buffer,
     timestamp |-> photo.timestamp, userId |-> userId,
     mimeType |-> photo.filename, filename |-> photo.filename,
     size |-> photo.size]

StoredPhoto(photo, userId) ==
    [requestId |-> photo.requestId, buffer |-> photo.buffer,
     timestamp |-> photo.timestamp, userId |-> userId,
     mimeType |-> photo.mimeType, filename |-> photo.filename,
     size |-> photo.size]

\* the envelope JSON.stringify is applied to
PhotoMessage(photo) ==
    [type |-> "photo", data |-> toBase64(photo.buffer),
     mimeType |-> photo.mimeType, timestamp |-> getTime(photo.timestamp),
     size |-> photo.size]

\* a loop that stops at the first socket that is not OPEN
RECURSIVE forEachClient_Abort(_, _, _, _, _, _)
forEachClient_Abort(streams, i, len0, rs, throws, sent) ==
    IF i > len0 THEN [streams |-> streams, sent |-> sent]
    ELSE IF i > Len(streams[General])
        THEN forEachClient_Abort(streams, i + 1, len0, rs, throws, sent)
    ELSE IF rs[streams[General][i]] # "OPEN"
        THEN [streams |-> streams, sent |-> sent]
    ELSE IF streams[General][i] \in throws
        THEN forEachClient_Abort(
                 removeWebSocket(streams, General, streams[General][i]),
                 i + 1, len0, rs, throws, sent)
    ELSE forEachClient_Abort(streams, i + 1, len0, rs, throws,
                             Append(sent, streams[General][i]))

\* a loop that sends without looking at readyState
RECURSIVE forEachClient_Unchecked(_, _, _, _, _, _)
forEachClient_Unchecked(streams, i, len0, rs, throws, sent) ==
    IF i > len0 THEN [streams |-> streams, sent |-> sent]
    ELSE IF i > Len(streams[General])
        THEN forEachClient_Unchecked(streams, i + 1, len0, rs, throws, sent)
    ELSE IF streams[General][i] \in throws
        THEN forEachClient_Unchecked(
                 removeWebSocket(streams, General, streams[General][i]),
                 i + 1, len0, rs, throws, sent)
    ELSE forEachClient_Unchecked(streams, i + 1, len0, rs, throws,
                                 Append(sent, streams[General][i]))

\* a loop that also removes the sockets it finds not OPEN
RECURSIVE forEachClient_Pruning(_, _, _, _, _, _)
forEachClient_Pruning(streams, i, len0, rs, throws, sent) ==
    IF i > len0 THEN [streams |-> streams, sent |-> sent]
    ELSE IF i > Len(streams[General])
        THEN forEachClient_Pruning(streams, i + 1, len0, rs, throws, sent)
    ELSE IF rs[streams[General][i]] # "OPEN" \/ streams[General][i] \in throws
        THEN forEachClient_Pruning(
                 removeWebSocket(streams, General, streams[General][i]),
                 i + 1, len0, rs, throws, sent)
    ELSE forEachClient_Pruning(streams, i + 1, len0, rs, throws,
                               Append(sent, streams[General][i]))

\* clients.forEach(...) of broadcastPhoto: index i runs over the length the
\* array had when forEach started, reading the live array (removeWebSocket
\* splices the same array object); `throws` are the sockets whose send throws
RECURSIVE forEachClient(_, _, _, _, _, _)
forEachClient(streams, i, len0, rs, throws, sent) ==
    IF i > len0 THEN [streams |-> streams, sent |-> sent]
    ELSE IF i > Len(streams[General])
        THEN forEachClient(streams, i + 1, len0, rs, throws, sent)
    ELSE IF rs[streams[General][i]] # "OPEN"
        THEN forEachClient(streams, i + 1, len0, rs, throws, sent)
    ELSE IF streams[General][i] \in throws
        THEN forEachClient(removeWebSocket(streams, General, streams[General][i]),
                           i + 1, len0, rs, throws, sent)
    ELSE forEachClient(streams, i + 1, len0, rs, throws,
                       Append(sent, streams[General][i]))

broadcastPhoto(streams, rs, throws) ==
    IF Has(streams, General)
    THEN forEachClient(streams, 1, Len(streams[General]), rs, throws, <<>>)
    ELSE [streams |-> streams, sent |-> <<>>]

\* the sockets of the 'general' stream, in array order
Clients(streams) == GetOr(streams, General, <<>>)
InStream(streams, w) == indexOf(Clients(streams), w, 1) > 0

InSeq(seq, x) == \E i \in 1..Len(seq) : seq[i] = x

\* the sockets of `before` that `after` no longer holds
Dropped(before, after) ==
    SelectSeq(Clients(before), LAMBDA w : ~InStream(after, w))

OpenClients ==
    IF Has(activeStreams, General)
    THEN {w \in Sockets : indexOf(activeStreams[General], w, 1) > 0
                          /\ readyState[w] = "OPEN"}
    ELSE {}

\* ------------------------------------------------------ capture coordinator
\* session.camera.requestPhoto(): a new pending promise for the user
RequestPhoto(u) ==
    /\ issued' = issued + 1
    /\ outstanding' = [outstanding EXCEPT ![u] = @ \cup {issued + 1}]

NoRequest == UNCHANGED <<issued, outstanding>>

\* a guard that never sees a request in progress
NoRequestInProgress_Always(ar, u) == TRUE

\* a guard that looks at the flags of all users
NoRequestInProgress_AnyUser(ar, u) == \A k \in DOMAIN ar : ~ar[k]

\* `if (!this.activeRequests.get(userId))`
NoRequestInProgress(ar, u) == ~Truthy(ar, u)

\* a tick that does not look at the streaming flag
TickDue_AnyMode(streaming, nextTime, u, t) == t > GetOr(nextTime, u, 0)

\* a tick that fires as soon as the next photo time is reached
TickDue_Reached(streaming, nextTime, u, t) ==
    Truthy(streaming, u) /\ t >= GetOr(nextTime, u, 0)

\* the condition of the setInterval callback
TickDue(streaming, nextTime, u, t) ==
    Truthy(streaming, u) /\ t > GetOr(nextTime, u, 0)

\* a catch block that never stops streaming
CatchStreaming_Never(streaming, u, msg) == streaming

\* a catch block that stops streaming on every failure
CatchStreaming_Always(streaming, u, msg) == Put(streaming, u, FALSE)

\* the catch block of takePhotoAsync
CatchStreaming(streaming, u, msg) ==
    IF IsDisconnect(msg) THEN Put(streaming, u, FALSE) ELSE streaming

\* takePhotoAsync without its finally block
FinallyActive_Missing(ar, u) == ar

\* the finally block of takePhotoAsync
FinallyActive(ar, u) == Put(ar, u, FALSE)

\* onSession: the initial state of the user
StartStreaming_Kept(streaming, u) ==
    IF Has(streaming, u) THEN streaming ELSE Put(streaming, u, FALSE)
StartStreaming(streaming, u) == Put(streaming, u, FALSE)

\* the interval callback: the next photo time, set before the request
TickNextTime_Unset(nextTime, u, t, interval) == nextTime
TickNextTime(nextTime, u, t, interval) == Put(nextTime, u, t + interval)

\* onStop has no statement for this.photos
StopPhotos_Cleared(photoMap, u) == Delete(photoMap, u)
StopPhotos(photoMap, u) == photoMap

\* cachePhoto that leaves the latest photo timestamp as it was
CacheTimestamp_Skipped(tsMap, u, cachedPhoto) == tsMap
\* cachePhoto: latestPhotoTimestamp.set(userId, cachedPhoto.timestamp.getTime())
CacheTimestamp(tsMap, u, cachedPhoto) ==
    Put(tsMap, u, getTime(cachedPhoto.timestamp))

\* the catch block of the disk write in cachePhoto only logs
WriteCatch_Evicts(photoMap, u) == Delete(photoMap, u)
WriteCatch(photoMap, u) == photoMap

\* onStop
StopStreaming(streaming, u) == Put(streaming, u, FALSE)
StopNextTime_Kept(nextTime, u) == nextTime
StopNextTime(nextTime, u) == Delete(nextTime, u)
StopActive(ar, u) == Delete(ar, u)

\* a long press that sets the flag it read
ToggleLong_Keep(streaming, u) == Put(streaming, u, Truthy(streaming, u))
\* the toggle of the long press: !this.isStreamingPhotos.get(userId)
ToggleLong(streaming, u) == Put(streaming, u, ~Truthy(streaming, u))

\* an endpoint that turns streaming on instead of toggling it
ToggleHttp_On(streaming, u) == Put(streaming, u, TRUE)
\* the toggle of POST /api/toggle-streaming
ToggleHttp(streaming, u) == Put(streaming, u, ~GetOr(streaming, u, FALSE))

\* the streaming flag as a toggle reads it
Reading(streaming, u) == IF Truthy(streaming, u) THEN "on" ELSE "off"

\* the last handler was a toggle for user u
LastWasToggle(u) == ev.op \in {"longPress", "toggle"} /\ ev.user = u
LastToggleOp(u) == IF LastWasToggle(u) THEN ev.op ELSE ""
LastToggleRead(u) == IF LastWasToggle(u) THEN ev.was ELSE ""

OnSession(u) ==
    /\ ~session[u]
    /\ session' = [session EXCEPT ![u] = TRUE]
    /\ tickArmed' = [tickArmed EXCEPT ![u] = TRUE]
    /\ isStreamingPhotos' = StartStreaming(isStreamingPhotos, u)
    /\ nextPhotoTime' = Put(nextPhotoTime, u, now)
    /\ lastTickCall' = [lastTickCall EXCEPT ![u].sameSession = FALSE]
    /\ ev' = [Event("onSession", u, 0) EXCEPT
                 !.was = Reading(isStreamingPhotos, u)]
    /\ NoRequest
    /\ UNCHANGED <<now, activeRequests, cacheVars, wsVars>>

OnStop(u) ==
    /\ session[u]
    /\ session' = [session EXCEPT ![u] = FALSE]
    /\ isStreamingPhotos' = StopStreaming(isStreamingPhotos, u)
    /\ nextPhotoTime' = StopNextTime(nextPhotoTime, u)
    /\ activeRequests' = StopActive(activeRequests, u)
    /\ photos' = StopPhotos(photos, u)
    /\ lastTickCall' = [lastTickCall EXCEPT ![u].sameSession = FALSE]
    /\ ev' = Event("onStop", u, 0)
    /\ NoRequest
    /\ UNCHANGED <<now, tickArmed, latestPhotoTimestamp, writes, wsVars>>

LongPress(u) ==
    /\ session[u]
    /\ isStreamingPhotos' = ToggleLong(isStreamingPhotos, u)
    /\ ev' = [Event("longPress", u, 0) EXCEPT
                 !.was = Reading(isStreamingPhotos, u),
                 !.opBefore = LastToggleOp(u),
                 !.wasBefore = LastToggleRead(u),
                 !.log = IF Truthy(ToggleLong(isStreamingPhotos, u), u)
                         THEN "now true" ELSE "now false"]
    /\ NoRequest
    /\ UNCHANGED <<now, session, tickArmed, lastTickCall, nextPhotoTime, activeRequests,
                   cacheVars, wsVars>>

ShortPress(u) ==
    /\ session[u]
    /\ IF NoRequestInProgress(activeRequests, u)
       THEN /\ activeRequests' = Put(activeRequests, u, TRUE)
            /\ RequestPhoto(u)
            /\ ev' = [Event("shortPress", u, 1) EXCEPT !.log = "starting"]
       ELSE /\ UNCHANGED activeRequests
            /\ NoRequest
            /\ ev' = [Event("shortPress", u, 0) EXCEPT !.log = "skipped"]
    /\ UNCHANGED <<now, session, tickArmed, lastTickCall, isStreamingPhotos, nextPhotoTime,
                   cacheVars, wsVars>>

\* the setInterval callback, with the interval the handler adds to Date.now()
TickWith(u, interval) ==
    /\ tickArmed[u]
    /\ IF TickDue(isStreamingPhotos, nextPhotoTime, u, now)
       THEN /\ nextPhotoTime' = TickNextTime(nextPhotoTime, u, now, interval)
            /\ IF NoRequestInProgress(activeRequests, u)
               THEN /\ activeRequests' = Put(activeRequests, u, TRUE)
                    /\ RequestPhoto(u)
                    /\ ev' = Event("tick", u, 1)
               ELSE /\ UNCHANGED activeRequests
                    /\ NoRequest
                    /\ ev' = Event("tick", u, 0)
       ELSE /\ UNCHANGED <<nextPhotoTime, activeRequests>>
            /\ NoRequest
            /\ ev' = Event("tick", u, 0)
    /\ UNCHANGED <<now, session, tickArmed, isStreamingPhotos, cacheVars,
                   wsVars>>

\* the interval callback of part_000, its calls of takePhotoAsync not recorded
\* in lastTickCall
Tick(u) == TickWith(u, CaptureIntervalMs) /\ UNCHANGED lastTickCall

\* the same callback, lastTickCall recording the time of a takePhotoAsync call
TimedTick(u) ==
    /\ TickWith(u, CaptureIntervalMs)
    /\ lastTickCall' =
           IF issued' # issued
           THEN [lastTickCall EXCEPT
                    ![u] = [at |-> now, sameSession |-> TRUE,
                            gap |-> IF lastTickCall[u].sameSession
                                    THEN now - lastTickCall[u].at ELSE 0]]
           ELSE lastTickCall

\* requestPhoto() resolves with `photo`: the try and finally blocks of
\* takePhotoAsync, with the synchronous part of cachePhoto
Resolve(u, c, p, throws) ==
    /\ c \in outstanding[u]
    /\ throws \subseteq OpenClients
    /\ outstanding' = [outstanding EXCEPT ![u] = @ \ {c}]
    /\ photos' = Put(photos, u, StoredPhoto(PhotoData(c, p), u))
    /\ latestPhotoTimestamp' =
           CacheTimestamp(latestPhotoTimestamp, u, StoredPhoto(PhotoData(c, p), u))
    /\ activeStreams' = broadcastPhoto(activeStreams, readyState, throws).streams
    /\ received' =
           [w \in Sockets |->
               IF InSeq(broadcastPhoto(activeStreams, readyState, throws).sent, w)
               THEN Append(received[w], c) ELSE received[w]]
    /\ writes' = writes \cup {[userId |-> u, requestId |-> c]}
    /\ activeRequests' = FinallyActive(activeRequests, u)
    /\ ev' = [Event("complete", u, 0) EXCEPT
                 !.result = "resolved", !.callId = c,
                 !.replaced = IF Has(photos, u) THEN photos[u].requestId ELSE 0,
                 !.broadcasts = <<PhotoMessage(StoredPhoto(PhotoData(c, p), u))>>,
                 !.sent = broadcastPhoto(activeStreams, readyState, throws).sent,
                 !.failed = Dropped(activeStreams,
                     broadcastPhoto(activeStreams, readyState, throws).streams)]
    /\ UNCHANGED <<now, issued, session, tickArmed, lastTickCall, isStreamingPhotos,
                   nextPhotoTime, readyState>>

\* the rest of cachePhoto: fs.mkdir and fs.writeFile have finished
WriteDone(w) ==
    /\ w \in writes
    /\ writes' = writes \ {w}
    /\ ev' = [Event("write", w.userId, 0) EXCEPT
                 !.callId = w.requestId, !.log = "saved"]
    /\ NoRequest
    /\ UNCHANGED <<now, session, tickArmed, lastTickCall, coordVars, photos,
                   latestPhotoTimestamp, wsVars>>

\* the rest of cachePhoto: fs.mkdir or fs.writeFile has thrown
WriteFail(w) ==
    /\ w \in writes
    /\ writes' = writes \ {w}
    /\ photos' = WriteCatch(photos, w.userId)
    /\ ev' = [Event("write", w.userId, 0) EXCEPT
                 !.callId = w.requestId, !.log = "error saving"]
    /\ NoRequest
    /\ UNCHANGED <<now, session, tickArmed, lastTickCall, coordVars,
                   latestPhotoTimestamp, wsVars>>

\* requestPhoto() rejects with an error carrying `msg`
Reject(u, c, msg) ==
    /\ c \in outstanding[u]
    /\ outstanding' = [outstanding EXCEPT ![u] = @ \ {c}]
    /\ isStreamingPhotos' = CatchStreaming(isStreamingPhotos, u, msg)
    /\ activeRequests' = FinallyActive(activeRequests, u)
    /\ ev' = [Event("complete", u, 0) EXCEPT
                 !.result = "rejected", !.callId = c,
                 !.log = IF IsDisconnect(msg) THEN "disconnected" ELSE "failed"]
    /\ UNCHANGED <<now, issued, session, tickArmed, lastTickCall, nextPhotoTime, cacheVars,
                   wsVars>>

\* POST /api/toggle-streaming
ToggleStreaming(authUserId) ==
    /\ IF authUserId = NoUser
       THEN /\ UNCHANGED isStreamingPhotos
            /\ ev' = [Event("toggle", authUserId, 0) EXCEPT !.status = 401]
       ELSE /\ isStreamingPhotos' = ToggleHttp(isStreamingPhotos, authUserId)
            /\ ev' = [Event("toggle", authUserId, 0) EXCEPT
                         !.status = 200,
                         !.was = Reading(isStreamingPhotos, authUserId),
                         !.opBefore = LastToggleOp(authUserId),
                         !.wasBefore = LastToggleRead(authUserId),
                         !.body = [NoBody EXCEPT !.isStreaming =
                                      ~GetOr(isStreamingPhotos, authUserId, FALSE)],
                         !.log = IF ~GetOr(isStreamingPhotos, authUserId, FALSE)
                                 THEN "Streaming started"
                                 ELSE "Streaming stopped"]
    /\ NoRequest
    /\ UNCHANGED <<now, session, tickArmed, lastTickCall, nextPhotoTime, activeRequests,
                   cacheVars, wsVars>>

\* GET /api/latest-photo: the response for a request of `authUserId`
latestPhotoResponse_NoFlag(photoMap, streaming, authUserId) ==
    IF authUserId = NoUser THEN [status |-> 401, body |-> NoBody]
    ELSE IF ~Has(photoMap, authUserId) THEN [status |-> 404, body |-> NoBody]
    ELSE [status |-> 200,
          body |-> [NoBody EXCEPT
                       !.requestId = photoMap[authUserId].requestId,
                       !.timestamp = getTime(photoMap[authUserId].timestamp),
                       !.hasPhoto = TRUE]]

\* a handler without the `!userId` test: photos.get(undefined) finds nothing
latestPhotoResponse_Public(photoMap, streaming, authUserId) ==
    IF authUserId = NoUser \/ ~Has(photoMap, authUserId)
    THEN [status |-> 404, body |-> NoBody]
    ELSE [status |-> 200,
          body |-> [NoBody EXCEPT
                       !.requestId = photoMap[authUserId].requestId,
                       !.timestamp = getTime(photoMap[authUserId].timestamp),
                       !.hasPhoto = TRUE,
                       !.isStreaming = GetOr(streaming, authUserId, FALSE)]]

latestPhotoResponse(photoMap, streaming, authUserId) ==
    IF authUserId = NoUser THEN [status |-> 401, body |-> NoBody]
    ELSE IF ~Has(photoMap, authUserId) THEN [status |-> 404, body |-> NoBody]
    ELSE [status |-> 200,
          body |-> [NoBody EXCEPT
                       !.requestId = photoMap[authUserId].requestId,
                       !.timestamp = getTime(photoMap[authUserId].timestamp),
                       !.hasPhoto = TRUE,
                       !.isStreaming = GetOr(streaming, authUserId, FALSE)]]

LatestPhoto(authUserId) ==
    /\ ev' = [Event("latestPhoto", authUserId, 0) EXCEPT
                 !.status = latestPhotoResponse(photos, isStreamingPhotos,
                                                authUserId).status,
                 !.body = latestPhotoResponse(photos, isStreamingPhotos,
                                              authUserId).body]
    /\ NoRequest
    /\ UNCHANGED <<now, session, tickArmed, lastTickCall, coordVars, cacheVars, wsVars>>

\* GET /api/photo/:requestId: the response for a request of `authUserId`
photoResponse_AnyId(photoMap, authUserId, requestId) ==
    IF authUserId = NoUser THEN [status |-> 401, body |-> NoBody]
    ELSE IF ~Has(photoMap, authUserId) THEN [status |-> 404, body |-> NoBody]
    ELSE [status |-> 200,
          body |-> [NoBody EXCEPT
                       !.contentType = photoMap[authUserId].mimeType,
                       !.data = photoMap[authUserId].buffer]]

photoResponse(photoMap, authUserId, requestId) ==
    IF authUserId = NoUser THEN [status |-> 401, body |-> NoBody]
    ELSE IF ~Has(photoMap, authUserId)
            \/ photoMap[authUserId].requestId # requestId
        THEN [status |-> 404, body |-> NoBody]
    ELSE [status |-> 200,
          body |-> [NoBody EXCEPT
                       !.contentType = photoMap[authUserId].mimeType,
                       !.data = photoMap[authUserId].buffer]]

GetPhoto(authUserId, requestId) ==
    /\ ev' = [Event("getPhoto", authUserId, 0) EXCEPT
                 !.callId = requestId,
                 !.status = photoResponse(photos, authUserId, requestId).status,
                 !.body = photoResponse(photos, authUserId, requestId).body]
    /\ NoRequest
    /\ UNCHANGED <<now, session, tickArmed, lastTickCall, coordVars, cacheVars, wsVars>>

\* ------------------------------------------------------ WebSocket server
\* wss.on('connection')
Connect(w) ==
    /\ readyState[w] = "NEW"
    /\ readyState' = [readyState EXCEPT ![w] = "OPEN"]
    /\ activeStreams' =
           Put(activeStreams, General,
               Append(GetOr(activeStreams, General, <<>>), w))
    /\ NoRequest
    /\ UNCHANGED <<now, session, tickArmed, lastTickCall, coordVars, cacheVars,
                   received, ev>>

\* the peer goes away: readyState leaves OPEN, the 'close' event is pending
Closing(w) ==
    /\ readyState[w] = "OPEN"
    /\ readyState' = [readyState EXCEPT ![w] = "CLOSING"]
    /\ NoRequest
    /\ UNCHANGED <<now, session, tickArmed, lastTickCall, coordVars, cacheVars,
                   activeStreams, received,
                   ev>>

\* ws.on('error') of an open socket: removeWebSocket('general', ws); the
\* socket is closing and its 'close' event is still to come
ErrorEvent(w) ==
    /\ readyState[w] = "OPEN"
    /\ readyState' = [readyState EXCEPT ![w] = "CLOSING"]
    /\ activeStreams' = removeWebSocket(activeStreams, General, w)
    /\ NoRequest
    /\ UNCHANGED <<now, session, tickArmed, lastTickCall, coordVars, cacheVars,
                   received, ev>>

\* ws.on('close'): removeWebSocket('general', ws)
Closed(w) ==
    /\ readyState[w] \in {"OPEN", "CLOSING"}
    /\ readyState' = [readyState EXCEPT ![w] = "CLOSED"]
    /\ activeStreams' = removeWebSocket(activeStreams, General, w)
    /\ NoRequest
    /\ UNCHANGED <<now, session, tickArmed, lastTickCall, coordVars, cacheVars,
                   received, ev>>

\* ------------------------------------------------------------------ clock
Advance ==
    /\ now < (MaxSteps + 1) * TickPeriodMs
    /\ now' = now + TickPeriodMs
    /\ NoRequest
    /\ UNCHANGED <<session, tickArmed, lastTickCall, coordVars, cacheVars, wsVars, ev>>

\* the users that launch the app in Spec
Launching == {"u1"}
\* the sockets that connect to the WebSocket server in Spec
Connecting == {"w1"}

\* The coordinator with its clock, one user and the disk writes; no socket
\* connects here (SpecW has the WebSocket server).
Next ==
    \/ \E u \in Launching : OnSession(u)
    \/ \E u \in Launching : OnStop(u)
    \/ \E u \in Launching : LongPress(u)
    \/ \E u \in Launching : ShortPress(u) /\ issued' <= MaxCalls
    \/ \E u \in Launching : Tick(u) /\ issued' <= MaxCalls
    \/ \E u \in Launching, p \in Payloads :
          \E c \in outstanding[u] : Resolve(u, c, p, {})
    \/ \E u \in Launching, msg \in ErrorMessages :
          \E c \in outstanding[u] : Reject(u, c, msg)
    \/ \E w \in writes : WriteDone(w)
    \/ \E w \in writes : WriteFail(w)
    \/ \E a \in Launching \cup {NoUser} : ToggleStreaming(a)
    \/ Advance

Spec == Init /\ [][Next]_vars

\* ------------------------------------------------ Scenario B as a schedule
\* One user: the session starts, a long press turns streaming on, then for
\* three seconds the clock moves half a tick period at a time, the interval
\* callback of src/index.ts (1000 ms capture interval) fires at each of these
\* times and every requestPhoto() call settles before the clock moves again.
\* Sockets connect and close freely meanwhile.
ScenarioUser == "u1"
ScenarioStepMs == TickPeriodMs \div 2
ScenarioEndMs == TickPeriodMs + 3 * TickPeriodMs

BStart == ev.op = "init" /\ OnSession(ScenarioUser)

BLongPress == ev.op = "onSession" /\ LongPress(ScenarioUser)

BAdvance ==
    /\ ev.op \in {"longPress", "tick", "complete"}
    /\ outstanding[ScenarioUser] = {}
    /\ now < ScenarioEndMs
    /\ now' = now + ScenarioStepMs
    /\ ev' = Event("advance", NoUser, 0)
    /\ NoRequest
    /\ UNCHANGED <<session, tickArmed, lastTickCall, coordVars, cacheVars, wsVars>>

BTick ==
    /\ ev.op = "advance"
    /\ TickWith(ScenarioUser, FastCaptureIntervalMs)
    /\ UNCHANGED lastTickCall

BResolve ==
    /\ ev.op = "tick"
    /\ \E c \in outstanding[ScenarioUser], p \in Payloads,
          throws \in SUBSET Connecting : Resolve(ScenarioUser, c, p, throws)

BReject ==
    /\ ev.op = "tick"
    /\ \E c \in outstanding[ScenarioUser], msg \in ErrorMessages :
          ~IsDisconnect(msg) /\ Reject(ScenarioUser, c, msg)

NextB ==
    \/ BStart
    \/ BLongPress
    \/ BAdvance
    \/ BTick
    \/ BResolve
    \/ BReject
    \/ \E w \in Connecting : Connect(w)
    \/ \E w \in Connecting : Closing(w)
    \/ \E w \in Connecting : Closed(w)

SpecB == Init /\ [][NextB]_vars

ScenarioDone ==
    /\ now = ScenarioEndMs
    /\ ev.op \in {"tick", "complete"}
    /\ outstanding[ScenarioUser] = {}

\* ------------------------------------------------- the HTTP query interface
\* One user, the unauthenticated caller and one socket that connects; no
\* clock: presses, completions, disk writes, toggles and the two GET endpoints.
NextQ ==
    \/ \E u \in Launching : OnSession(u)
    \/ \E u \in Launching : OnStop(u)
    \/ \E u \in Launching : LongPress(u)
    \/ \E u \in Launching : ShortPress(u) /\ issued' <= MaxCalls
    \/ \E u \in Launching, p \in Payloads :
          \E c \in outstanding[u] : Resolve(u, c, p, {})
    \/ \E u \in Launching, msg \in ErrorMessages :
          \E c \in outstanding[u] : Reject(u, c, msg)
    \/ \E a \in Launching \cup {NoUser} : ToggleStreaming(a)
    \/ \E a \in Launching \cup {NoUser} : LatestPhoto(a)
    \/ \E a \in Launching \cup {NoUser}, r \in 1..issued : GetPhoto(a, r)
    \/ \E w \in Connecting : Connect(w)
    \/ \E w \in writes : WriteDone(w)
    \/ \E w \in writes : WriteFail(w)

SpecQ == Init /\ [][NextQ]_vars

\* ------------------------------------------------- the broadcaster at work
\* One user whose captures all succeed and three sockets that connect, fail on
\* send, report an error and close in any order.
NextW ==
    \/ \E u \in Launching : OnSession(u)
    \/ \E u \in Launching : ShortPress(u) /\ issued' <= MaxCalls
    \/ \E u \in Launching, throws \in SUBSET Sockets :
          \E c \in outstanding[u] :
              Resolve(u, c, CHOOSE p \in Payloads : p.size = 3, throws)
    \/ \E w \in Sockets : Connect(w)
    \/ \E w \in Sockets : Closing(w)
    \/ \E w \in Sockets : ErrorEvent(w)
    \/ \E w \in Sockets : Closed(w)

SpecW == Init /\ [][NextW]_vars

\* ------------------------------------------------ the streaming rate limit
\* One user, the timed interval callback and a clock that runs for three
\* capture intervals; presses, toggles, completions and session stops and
\* starts come in between.
StreamEndMs == 3 * CaptureIntervalMs

StreamAdvance ==
    /\ now < StreamEndMs
    /\ now' = now + TickPeriodMs
    /\ NoRequest
    /\ UNCHANGED <<session, tickArmed, lastTickCall, coordVars, cacheVars,
                   wsVars, ev>>

NextT ==
    \/ \E u \in Launching : OnSession(u)
    \/ \E u \in Launching : OnStop(u)
    \/ \E u \in Launching : LongPress(u)
    \/ \E u \in Launching : ShortPress(u) /\ issued' <= MaxCalls
    \/ \E u \in Launching : TimedTick(u) /\ issued' <= MaxCalls
    \/ \E u \in Launching :
          \E c \in outstanding[u] :
              Resolve(u, c, CHOOSE p \in Payloads : p.size = 3, {})
    \/ \E u \in Launching :
          \E c \in outstanding[u] : Reject(u, c, <<"Connection", "is", "CLOSED">>)
    \/ \E a \in Launching : ToggleStreaming(a)
    \/ StreamAdvance

SpecT == Init /\ [][NextT]_vars

\* ------------------------------------------------------------- two users
\* Both users launch the app, press and stream and their captures succeed; for
\* one of them sessions also stop, captures fail and the toggle endpoint is
\* called. The clock makes one step, enough for the interval callbacks to find
\* a photo due.
UsersEndMs == 2 * TickPeriodMs

UsersAdvance ==
    /\ now < UsersEndMs
    /\ now' = now + TickPeriodMs
    /\ NoRequest
    /\ UNCHANGED <<session, tickArmed, lastTickCall, coordVars, cacheVars,
                   wsVars, ev>>

NextU ==
    \/ \E u \in Users : OnSession(u)
    \/ \E u \in Launching : OnStop(u)
    \/ \E u \in Users : LongPress(u)
    \/ \E u \in Users : ShortPress(u) /\ issued' <= MaxCalls
    \/ \E u \in Users : Tick(u) /\ issued' <= MaxCalls
    \/ \E u \in Users :
          \E c \in outstanding[u] :
              Resolve(u, c, CHOOSE p \in Payloads : p.size = 3, {})
    \/ \E u \in Launching :
          \E c \in outstanding[u] :
              Reject(u, c, <<"Connection", "is", "CLOSED">>)
    \/ \E a \in Launching : ToggleStreaming(a)
    \/ UsersAdvance

SpecU == Init /\ [][NextU]_vars

\* ------------------------------------------------- two users, one stream
\* Both users launch the app and press, their captures succeed, and the
\* sockets of two peers connect, fail on send and close in any order.
Subscribing == {"w1", "w2"}

NextG ==
    \/ \E u \in Users : OnSession(u)
    \/ \E u \in Users : ShortPress(u) /\ issued' <= MaxCalls
    \/ \E u \in Users, throws \in SUBSET Subscribing :
          \E c \in outstanding[u] :
              Resolve(u, c, CHOOSE p \in Payloads : p.size = 3, throws)
    \/ \E w \in Subscribing : Connect(w)
    \/ \E w \in Subscribing : Closing(w)
    \/ \E w \in Subscribing : Closed(w)

SpecG == Init /\ [][NextG]_vars

\* --------------------------------------------- a device that never answers
\* requestPhoto() promises stay pending for ever: no completion step. Captures
\* are issued up to SilentIssueEndMs and the clock runs on past the documented
\* request timeout.
SilentIssueEndMs == 2 * TickPeriodMs
SilentEndMs == SilentIssueEndMs + TimeoutMs + TickPeriodMs

SilentAdvance ==
    /\ now < SilentEndMs
    /\ now' = now + TickPeriodMs
    /\ NoRequest
    /\ UNCHANGED <<session, tickArmed, lastTickCall, coordVars, cacheVars, wsVars, ev>>

NextSilent ==
    \/ \E u \in Launching : OnSession(u)
    \/ \E u \in Launching : LongPress(u)
    \/ \E u \in Launching : ShortPress(u) /\ now <= SilentIssueEndMs
    \/ \E u \in Launching : Tick(u) /\ now <= SilentIssueEndMs
    \/ \E a \in Launching : ToggleStreaming(a)
    \/ SilentAdvance

SpecSilent == Init /\ [][NextSilent]_vars

\* =================================================================== claims
\* a requestPhoto() promise of user u settles in this step
Settles(u) == outstanding'[u] # outstanding[u] /\ outstanding'[u] \subseteq outstanding[u]
\* a requestPhoto() call is made for user u in this step
Requests(u) == ~(outstanding'[u] \subseteq outstanding[u])
IsFalse(m, k) == Has(m, k) /\ ~m[k]
\* the step is recorded as handler `op` running for user u
By(op, u) ==
    ev'.op = op /\ ev'.user = u /\ now' = now /\ readyState' = readyState

\* C1: for every user, in every reachable state, at most one requestPhoto()
\* call issued for that user is outstanding.
C1_AtMostOneOutstanding ==
    \A u \in Users : Cardinality(outstanding[u]) <= 1

\* C2: every step in which a capture call of a user resolves or fails ends
\* with that user's activeRequests flag false.
C2_FlagClearedOnCompletion ==
    [][\A u \in Users : Settles(u) => IsFalse(activeRequests', u)]_vars

C2_Witness ==
    /\ ev.op = "complete" /\ ev.result = "rejected"
    /\ IsFalse(activeRequests, ev.user)
    /\ outstanding[ev.user] = {}

\* C3: a capture call that settles while its user has no session (onStop has
\* run) creates no isStreamingPhotos, nextPhotoTime or activeRequests entry.
C3_NoResurrection ==
    [][\A u \in Users : (Settles(u) /\ ~session[u]) =>
          /\ DOMAIN activeRequests' = DOMAIN activeRequests
          /\ DOMAIN isStreamingPhotos' = DOMAIN isStreamingPhotos
          /\ DOMAIN nextPhotoTime' = DOMAIN nextPhotoTime]_vars

\* C4: a short press while activeRequests is true makes no requestPhoto() call
\* and leaves the three coordinator maps unchanged; and no settling of a call
\* makes a requestPhoto() call (the dropped press is not queued).
C4_ShortPressDropped ==
    [][\A u \in Users :
          /\ (By("shortPress", u) /\ ShortPress(u) /\ Truthy(activeRequests, u)) =>
                /\ issued' = issued /\ outstanding' = outstanding
                /\ UNCHANGED coordVars
                /\ ev'.calls = 0 /\ ev'.log = "skipped"
          /\ Settles(u) => (issued' = issued /\ ~Requests(u))]_vars

C4_Witness ==
    /\ ev.op = "shortPress" /\ ev.log = "skipped"
    /\ Truthy(activeRequests, ev.user)
    /\ Cardinality(outstanding[ev.user]) = 1

\* C5 (Scenario A): a short press with activeRequests not true makes exactly one
\* requestPhoto() call; when a call resolves, the cached photo of the user has
\* the requestId, buffer, mimeType, filename, timestamp and size of the photo
\* returned and exactly one message, of type "photo", is broadcast.
C5_ScenarioA ==
    [][\A u \in Users :
          /\ (By("shortPress", u) /\ ShortPress(u) /\ ~Truthy(activeRequests, u)) =>
                /\ issued' = issued + 1
                /\ outstanding'[u] = outstanding[u] \cup {issued'}
                /\ issued' \notin outstanding[u]
          /\ (By("complete", u) /\ Settles(u)) =>
              \A c \in outstanding[u], p \in Payloads, throws \in SUBSET Sockets :
                Resolve(u, c, p, throws) =>
                   /\ Has(photos', u)
                   /\ photos'[u].requestId = c
                   /\ photos'[u].buffer = p.buffer
                   /\ photos'[u].mimeType = p.mimeType
                   /\ photos'[u].filename = p.filename
                   /\ photos'[u].timestamp = p.timestamp
                   /\ photos'[u].size = p.size
                   /\ Len(ev'.broadcasts) = 1
                   /\ ev'.broadcasts[1].type = "photo"
                   /\ ev'.broadcasts[1].data = toBase64(p.buffer)]_vars

C5_Witness ==
    /\ ev.op = "complete" /\ ev.result = "resolved"
    /\ Has(photos, ev.user) /\ photos[ev.user].requestId = ev.callId
    /\ Len(ev.broadcasts) = 1 /\ Len(ev.sent) = 1
    /\ issued = 1

\* what the tick reads
TickConditions(u) ==
    /\ Truthy(isStreamingPhotos, u)
    /\ now > GetOr(nextPhotoTime, u, 0)
    /\ ~Truthy(activeRequests, u)

TickFires(u) ==
    /\ issued' = issued + 1
    /\ outstanding'[u] = outstanding[u] \cup {issued'}
    /\ nextPhotoTime' = Put(nextPhotoTime, u, now + CaptureIntervalMs)
    /\ activeRequests' = Put(activeRequests, u, TRUE)
    /\ UNCHANGED isStreamingPhotos

\* C6 as claimed: the tick advances nextPhotoTime, sets activeRequests and makes
\* a requestPhoto() call when streaming is on, now > nextPhotoTime and no
\* request is active; otherwise it makes no call and leaves the three maps alone.
C6_TickAllOrNothing ==
    [][\A u \in Users : (By("tick", u) /\ Tick(u)) =>
          IF TickConditions(u) THEN TickFires(u)
          ELSE issued' = issued /\ outstanding' = outstanding
               /\ UNCHANGED coordVars]_vars

\* C6 as amended: the tick makes a call and sets activeRequests only when all
\* three conditions hold; it advances nextPhotoTime to now + interval whenever
\* streaming is on and now > nextPhotoTime (0 when absent), also while a request
\* is active; with streaming off or now <= nextPhotoTime it changes nothing.
C6_TickAdvancesEvenWhenBusy ==
    [][\A u \in Users : (By("tick", u) /\ Tick(u)) =>
          IF TickConditions(u) THEN TickFires(u)
          ELSE IF Truthy(isStreamingPhotos, u) /\ now > GetOr(nextPhotoTime, u, 0)
          THEN /\ issued' = issued /\ outstanding' = outstanding
               /\ nextPhotoTime' = Put(nextPhotoTime, u, now + CaptureIntervalMs)
               /\ UNCHANGED <<isStreamingPhotos, activeRequests>>
          ELSE issued' = issued /\ outstanding' = outstanding
               /\ UNCHANGED coordVars]_vars

C6_Witness ==
    /\ ev.op = "tick" /\ ev.calls = 0
    /\ Truthy(isStreamingPhotos, ev.user)
    /\ Truthy(activeRequests, ev.user)
    /\ Has(nextPhotoTime, ev.user)
    /\ nextPhotoTime[ev.user] = now + CaptureIntervalMs

\* C8 (Scenario C): a call that fails with a message containing "WebSocket not
\* connected" or "CLOSED" leaves streaming false for its user; a tick with
\* streaming not true makes no call; and streaming becomes true only by a long
\* press or the toggle endpoint.
C8_ScenarioC ==
    [][\A u \in Users :
          /\ (By("complete", u) /\ Settles(u)) =>
              \A c \in outstanding[u], msg \in ErrorMessages :
                (Reject(u, c, msg) /\ IsDisconnect(msg)) =>
                    IsFalse(isStreamingPhotos', u)
          /\ (By("tick", u) /\ Tick(u) /\ ~Truthy(isStreamingPhotos, u)) =>
                (issued' = issued /\ outstanding' = outstanding)
          /\ (~Truthy(isStreamingPhotos, u) /\ Truthy(isStreamingPhotos', u)) =>
                (LongPress(u) \/ ToggleStreaming(u))]_vars

C8_Witness ==
    /\ ev.op = "complete" /\ ev.log = "disconnected"
    /\ IsFalse(isStreamingPhotos, ev.user)
    /\ session[ev.user]
    /\ Has(nextPhotoTime, ev.user) /\ now > nextPhotoTime[ev.user]

\* C9: a call that fails with any other error leaves activeRequests false and
\* changes nothing else: streaming flag, next photo time, cached photo and the
\* socket registry are unchanged, nothing is broadcast, no call is made.
C9_OtherFailureOnlyClears ==
    [][\A u \in Users : (By("complete", u) /\ Settles(u)) =>
          \A c \in outstanding[u], msg \in ErrorMessages :
             (Reject(u, c, msg) /\ ~IsDisconnect(msg)) =>
                 /\ IsFalse(activeRequests', u)
                 /\ UNCHANGED <<isStreamingPhotos, nextPhotoTime, photos,
                                latestPhotoTimestamp, activeStreams, issued>>
                 /\ outstanding'[u] = outstanding[u] \ {c}
                 /\ ev'.broadcasts = <<>> /\ ev'.sent = <<>>
                 /\ ev'.calls = 0]_vars

C9_Witness ==
    /\ ev.op = "complete" /\ ev.log = "failed"
    /\ Truthy(isStreamingPhotos, ev.user)
    /\ IsFalse(activeRequests, ev.user)
    /\ Has(photos, ev.user)

\* C10 as claimed: right after onStop the user has no isStreamingPhotos, no
\* nextPhotoTime and no activeRequests entry.
C10_StopDiscardsAll ==
    ev.op = "onStop" =>
        /\ ~Has(isStreamingPhotos, ev.user)
        /\ ~Has(nextPhotoTime, ev.user)
        /\ ~Has(activeRequests, ev.user)

\* C10 as amended: right after onStop the user has no nextPhotoTime and no
\* activeRequests entry, and keeps an isStreamingPhotos entry whose value is false.
C10_StopKeepsStreamingFalse ==
    ev.op = "onStop" =>
        /\ IsFalse(isStreamingPhotos, ev.user)
        /\ ~Has(nextPhotoTime, ev.user)
        /\ ~Has(activeRequests, ev.user)

C10_Witness ==
    /\ ev.op = "onStop" /\ ~session[ev.user]
    /\ outstanding[ev.user] # {}
    /\ IsFalse(isStreamingPhotos, ev.user)
    /\ ~Has(activeRequests, ev.user)


\* C7 (Scenario B) as claimed: when the three seconds of ticks are over,
\* exactly 3 requestPhoto() calls have been made.
C7_ThreeCaptures == ScenarioDone => issued = 3

\* C7 as amended: when the three seconds of ticks are over exactly 2 calls
\* have been made, and each call is made with no other call outstanding and
\* at a time later than the next photo time set by the call before it.
C7_TwoCaptures ==
    /\ [](ScenarioDone => issued = 2)
    /\ [][Requests(ScenarioUser) =>
            /\ outstanding[ScenarioUser] = {}
            /\ now > nextPhotoTime[ScenarioUser]
            /\ nextPhotoTime'[ScenarioUser] = now + FastCaptureIntervalMs]_vars

C7_Witness ==
    /\ ScenarioDone
    /\ issued = 2
    /\ Has(photos, ScenarioUser) /\ photos[ScenarioUser].requestId = 2
    /\ nextPhotoTime[ScenarioUser] = ScenarioEndMs

\* a completion that reached cachePhoto
Cached(u) == By("complete", u) /\ ev'.result = "resolved" /\ Settles(u)

\* C11 (SpecQ): caching replaces. When cachePhoto(u, p2) runs for a user who
\* already has a cached photo p1, the user still has exactly one cached photo
\* and it is p2; the latest-photo query then answers with p2's request id, the
\* photo query with p2's request id answers with p2's bytes, and the photo
\* query with p1's request id, when it differs, answers not-found.
C11_CachingReplaces ==
    [][\A u \in Users :
          Cached(u) /\ Has(photos, u) =>
              \E c \in outstanding[u], p \in Payloads :
                  /\ Resolve(u, c, p, {})
                  /\ DOMAIN photos' = DOMAIN photos
                  /\ photos'[u].requestId = c
                  /\ photos'[u].buffer = p.buffer
                  /\ latestPhotoResponse(photos', isStreamingPhotos', u)
                         .body.requestId = c
                  /\ photoResponse(photos', u, c).status = 200
                  /\ photoResponse(photos', u, c).body.data = p.buffer
                  /\ photos[u].requestId # c =>
                         photoResponse(photos', u, photos[u].requestId)
                             .status = 404]_vars

\* a second photo has replaced a first one with another request id
C11_Witness ==
    /\ ev.op = "complete" /\ ev.result = "resolved"
    /\ ev.replaced # 0 /\ ev.replaced # ev.callId
    /\ photos[ev.user].requestId = ev.callId

\* a broadcast of user u's photo during which no send failed
CleanBroadcast(u) ==
    Cached(u) /\ \E c \in outstanding[u], p \in Payloads : Resolve(u, c, p, {})

NotOpen(streams) == {w \in Sockets : InStream(streams, w) /\ readyState[w] # "OPEN"}

C13_ClosedOnesPruned ==
    [][\A u \in Users :
          CleanBroadcast(u) =>
              \A w \in NotOpen(activeStreams) : ~InStream(activeStreams', w)]_vars

\* C13 (SpecW), amended: a broadcast skips a channel that is not OPEN and
\* leaves it in the registry, at its place; the channel leaves the registry
\* when its close event (or error event) is handled.
C13_ClosedOnesSkipped ==
    [][/\ \A u \in Users :
             CleanBroadcast(u) =>
                 /\ activeStreams' = activeStreams
                 /\ \A w \in NotOpen(activeStreams) :
                        \A i \in 1..Len(ev'.sent) : ev'.sent[i] # w
       /\ \A w \in Sockets :
             readyState'[w] = "CLOSED" /\ readyState[w] # "CLOSED" =>
                 ~InStream(activeStreams', w)]_vars

\* a channel that was not OPEN during the last broadcast is still registered,
\* ahead of a channel that got the envelope
C13_Witness ==
    /\ ev.op = "complete" /\ ev.failed = <<>>
    /\ Len(Clients(activeStreams)) >= 2
    /\ readyState[Clients(activeStreams)[1]] = "CLOSING"
    /\ ev.sent = <<Clients(activeStreams)[2]>>

\* C14 (SpecW): partial-failure isolation. When the send to exactly one open
\* channel fails during a broadcast, that channel leaves the registry and every
\* other open channel registered at the start of the broadcast receives the
\* envelope.
C14_OthersStillReceive ==
    [][\A u \in Users, w \in Sockets :
          Cached(u)
          /\ (\E c \in outstanding[u], p \in Payloads : Resolve(u, c, p, {w}))
          => /\ ~InStream(activeStreams', w)
             /\ \A x \in OpenClients \ {w} :
                    \E i \in 1..Len(ev'.sent) : ev'.sent[i] = x]_vars

\* the registry with channel w taken out, the others in their order
Without(streams, w) ==
    IF Has(streams, General)
    THEN Put(streams, General, SelectSeq(streams[General], LAMBDA x : x # w))
    ELSE streams

\* C15 (SpecW): unregistering is idempotent. For every channel and every
\* registry the program reaches, removeWebSocket of a channel that is not
\* registered gives the registry back unchanged, removeWebSocket of a
\* registered channel gives the registry without that channel and with the
\* others in their order, and a second removal changes nothing more.
C15_UnregisterIdempotent ==
    \A w \in Sockets :
        LET once == removeWebSocket(activeStreams, General, w)
        IN /\ ~InStream(activeStreams, w) => once = activeStreams
           /\ once = Without(activeStreams, w)
           /\ removeWebSocket(once, General, w) = once

\* the close event of a channel was handled after a failed send had already
\* removed the channel, and the two other channels are registered in order
C15_Witness ==
    /\ ev.op = "complete" /\ Len(ev.failed) = 1
    /\ readyState[ev.failed[1]] = "CLOSED"
    /\ Len(Clients(activeStreams)) = 2

\* C16 (Spec): two toggles in a row undo each other. After a toggle of user u
\* (long press or toggle endpoint) that directly follows another toggle of u,
\* the streaming flag reads as it did before the first of the two.
C16_TwoTogglesUndo ==
    (ev.op \in {"longPress", "toggle"} /\ ev.wasBefore # "") =>
        Reading(isStreamingPhotos, ev.user) = ev.wasBefore

\* a long press followed by the endpoint, starting from streaming on
C16_Witness ==
    /\ ev.op = "toggle" /\ ev.opBefore = "longPress"
    /\ ev.wasBefore = "on" /\ ev.was = "off"
    /\ Truthy(isStreamingPhotos, ev.user)

\* C17 (SpecQ): Scenario D. The latest-photo query of an authenticated user
\* answers not-found while the user has no cached photo; made right after a
\* successful capture of that user it answers with the request id and the
\* timestamp of that capture and with the user's streaming flag.
C17_ScenarioD ==
    [][\A u \in Users :
          By("latestPhoto", u) /\ LatestPhoto(u) =>
              /\ ~Has(photos, u) => ev'.status = 404
              /\ (ev.op = "complete" /\ ev.result = "resolved" /\ ev.user = u) =>
                     /\ ev'.status = 200
                     /\ ev'.body.requestId = ev.callId
                     /\ ev'.body.timestamp = ev.broadcasts[1].timestamp
                     /\ ev'.body.hasPhoto
                     /\ ev'.body.isStreaming = Truthy(isStreamingPhotos, u)]_vars

\* the query answered with the one photo taken so far while streaming is on
C17_Witness ==
    /\ ev.op = "latestPhoto" /\ ev.status = 200
    /\ issued = 1 /\ ev.body.requestId = 1
    /\ ev.body.isStreaming

\* C18 (Spec): completions of one user are handled in issue order, so a
\* photo that is cached never replaces the photo of a capture issued later.
C18_CacheFollowsIssueOrder ==
    (ev.op = "complete" /\ ev.result = "resolved") => ev.replaced < ev.callId

\* C19 (SpecSilent): request timeout. Once TimeoutMs have passed since the
\* last moment a capture could be issued, no capture is still pending with
\* the user's active-request flag true.
C19_RequestTimesOut ==
    \A u \in Users :
        (now >= SilentIssueEndMs + TimeoutMs /\ outstanding[u] # {}) =>
            ~Truthy(activeRequests, u)

\* C20 (SpecQ): the latest-photo endpoint is public. A request without an
\* authenticated user id is answered with metadata or with not-found.
C20_LatestPhotoPublic ==
    (ev.op = "latestPhoto" /\ ev.user = NoUser) => ev.status \in {200, 404}

\* a timed interval callback of user u that calls takePhotoAsync
TickCalls(u) == By("tick", u) /\ ev'.calls = 1 /\ Requests(u)

\* C21 (SpecT), as stated: any two consecutive capture calls the interval
\* callback makes for a user are more than CaptureIntervalMs apart, whatever
\* happens between them (completions, presses, toggles, session stops and
\* starts).
C21_TickCallsSpaced ==
    [][\A u \in Users :
          TickCalls(u) /\ lastTickCall[u].at # 0 =>
              now - lastTickCall[u].at > CaptureIntervalMs]_vars

\* C21 (SpecT), amended: the interval callback sets the next photo time to
\* now + CaptureIntervalMs before it calls takePhotoAsync, and two consecutive
\* capture calls it makes for a user with no session start or stop of that
\* user between them are more than CaptureIntervalMs apart.
C21_TickCallsSpacedInSession ==
    [][\A u \in Users :
          TickCalls(u) =>
              /\ Has(nextPhotoTime', u)
              /\ nextPhotoTime'[u] = now + CaptureIntervalMs
              /\ lastTickCall[u].sameSession =>
                     now - lastTickCall[u].at > CaptureIntervalMs]_vars

\* the callback has called takePhotoAsync twice in one session, the second
\* time three seconds after the first
C21_Witness ==
    /\ ev.op = "tick" /\ ev.calls = 1
    /\ session[ev.user]
    /\ lastTickCall[ev.user].at = now
    /\ lastTickCall[ev.user].gap > CaptureIntervalMs

\* C22 (SpecQ): a long press only toggles the streaming flag of its user. It
\* makes no requestPhoto() call and leaves the user's active-request flag,
\* next photo time and cached photo, and the registry of sockets, as they
\* were.
C22_LongPressOnlyToggles ==
    [][\A u \in Users :
          By("longPress", u) =>
              /\ Truthy(isStreamingPhotos', u) = ~Truthy(isStreamingPhotos, u)
              /\ ev'.calls = 0
              /\ UNCHANGED <<issued, outstanding, activeRequests, nextPhotoTime,
                             photos, latestPhotoTimestamp, activeStreams>>]_vars

\* a long press turned streaming on while a call was pending, a photo was
\* cached and a socket was registered
C22_Witness ==
    /\ ev.op = "longPress" /\ ev.was = "off"
    /\ Truthy(isStreamingPhotos, ev.user)
    /\ outstanding[ev.user] # {} /\ Truthy(activeRequests, ev.user)
    /\ Has(photos, ev.user)
    /\ Len(Clients(activeStreams)) = 1

\* C23 (Spec): onSession leaves its user with streaming false and the next
\* photo time equal to the current time, whatever the streaming flag was, and
\* makes no requestPhoto() call.
C23_SessionStartResets ==
    [][\A u \in Users :
          By("onSession", u) =>
              /\ IsFalse(isStreamingPhotos', u)
              /\ Has(nextPhotoTime', u) /\ nextPhotoTime'[u] = now
              /\ ev'.calls = 0
              /\ UNCHANGED <<issued, outstanding>>]_vars

\* a session started for a user whose streaming flag was true
C23_Witness ==
    /\ ev.op = "onSession" /\ ev.was = "on"
    /\ IsFalse(isStreamingPhotos, ev.user)
    /\ nextPhotoTime[ev.user] = now

\* C24 (SpecQ): persistence is off the critical path. When a call resolves,
\* the photo is cached, the envelope is broadcast and the active-request flag
\* is cleared in the step that leaves the disk write pending; the step in
\* which the write ends, saved or failed, changes neither the cached photo,
\* nor what the sockets received, nor the streaming state, and broadcasts
\* nothing.
C24_PersistenceOffCriticalPath ==
    [][\A u \in Users :
          /\ Cached(u) =>
                /\ Has(photos', u) /\ photos'[u].requestId = ev'.callId
                /\ Len(ev'.broadcasts) = 1
                /\ IsFalse(activeRequests', u)
                /\ [userId |-> u, requestId |-> ev'.callId] \in writes'
          /\ By("write", u) =>
                /\ [userId |-> u, requestId |-> ev'.callId] \in writes \ writes'
                /\ ev'.broadcasts = <<>> /\ ev'.sent = <<>>
                /\ UNCHANGED <<photos, latestPhotoTimestamp, coordVars,
                               activeStreams, received, issued,
                               outstanding>>]_vars

\* the write of the cached photo failed after the photo had reached the
\* socket and the flag was cleared
C24_Witness ==
    /\ ev.op = "write" /\ ev.log = "error saving"
    /\ Has(photos, ev.user) /\ photos[ev.user].requestId = ev.callId
    /\ IsFalse(activeRequests, ev.user)
    /\ \E w \in Sockets : InSeq(received[w], ev.callId)

\* C25 (SpecW): the broadcast does not buffer. The peer of a socket gets the
\* envelope of a photo only in the step that broadcasts that photo and only if
\* the socket is registered and OPEN in that step; the step in which a socket
\* connects delivers nothing to it.
C25_NoBuffering ==
    [][\A w \in Sockets :
          /\ received'[w] # received[w] =>
                /\ \E u \in Users : Cached(u)
                /\ InStream(activeStreams, w) /\ readyState[w] = "OPEN"
                /\ received'[w] = Append(received[w], ev'.callId)
          /\ (readyState[w] = "NEW" /\ readyState'[w] = "OPEN") =>
                (received' = received /\ ev' = ev)]_vars

\* a socket is registered and OPEN after the only broadcast so far, which
\* failed for no socket and reached another socket, and its peer has nothing
C25_Witness ==
    /\ ev.op = "complete" /\ ev.result = "resolved" /\ issued = 1
    /\ ev.failed = <<>> /\ ev.sent # <<>>
    /\ \E w \in Sockets :
          /\ InStream(activeStreams, w) /\ readyState[w] = "OPEN"
          /\ received[w] = <<>>

\* C26 (SpecQ): a cached photo is never destroyed. A user who has a cached
\* photo has one after every step (session stop, failed call, failed disk
\* write, toggle), and the latest-photo query of that user does not answer
\* not-found.
C26_PhotoNeverDestroyed ==
    [][\A u \in Users :
          Has(photos, u) =>
              /\ Has(photos', u)
              /\ latestPhotoResponse(photos', isStreamingPhotos', u).status
                     = 200]_vars

\* the session of a user with a cached photo stopped and the photo is there
C26_Witness ==
    /\ ev.op = "onStop" /\ ~session[ev.user]
    /\ Has(photos, ev.user)
    /\ latestPhotoResponse(photos, isStreamingPhotos, ev.user).status = 200

\* the entry of key k in a Map, or nothing
Entry(m, k) == IF Has(m, k) THEN <<m[k]>> ELSE <<>>

\* a handler ran for user a (or a call of user a settled)
EventFor(a) == ev'.user = a /\ now' = now /\ readyState' = readyState

\* C27 (SpecU): per-user independence. A handler that runs for user a leaves
\* the streaming flag, next photo time, active-request flag, cached photo and
\* pending calls of every other user b as they were; and a short press or a
\* due interval callback of b with b's active-request flag not true makes b's
\* requestPhoto() call whether or not a call of a is pending.
C27_UsersIndependent ==
    [][\A a \in Users : \A b \in Users \ {a} :
          /\ EventFor(a) =>
                /\ Entry(isStreamingPhotos', b) = Entry(isStreamingPhotos, b)
                /\ Entry(nextPhotoTime', b) = Entry(nextPhotoTime, b)
                /\ Entry(activeRequests', b) = Entry(activeRequests, b)
                /\ Entry(photos', b) = Entry(photos, b)
                /\ outstanding'[b] = outstanding[b]
          /\ (By("shortPress", b) /\ ~Truthy(activeRequests, b)) => Requests(b)
          /\ (By("tick", b) /\ TickConditions(b)) => Requests(b)]_vars

\* user u2 pressed and its call was made while a call of u1 was pending
C27_Witness ==
    /\ ev.op = "shortPress" /\ ev.user = "u2" /\ ev.calls = 1
    /\ outstanding["u1"] # {} /\ Truthy(activeRequests, "u1")
    /\ outstanding["u2"] # {}

C29_NoFlagNoCall ==
    \A u \in Users : ~Truthy(activeRequests, u) => outstanding[u] = {}

\* C30 (Spec): the interval callback makes no requestPhoto() call for a user
\* whose session has stopped and has not started again.
C30_NoCaptureAfterStop ==
    (ev.op = "tick" /\ ev.calls = 1) => session[ev.user]

\* C32 (Spec): the two maps of the cache go together. In every reachable
\* state a user has a latestPhotoTimestamp entry exactly when the user has a
\* cached photo, and the entry is the timestamp of that cached photo in
\* milliseconds.
C32_TimestampFollowsPhoto ==
    \A u \in Users :
        /\ Has(latestPhotoTimestamp, u) <=> Has(photos, u)
        /\ Has(photos, u) =>
               /\ Has(latestPhotoTimestamp, u)
               /\ latestPhotoTimestamp[u] = getTime(photos[u].timestamp)

\* a second photo, taken at another time than the first, replaced the cached
\* photo of a user whose session has stopped, and the disk write of the first
\* has failed
C32_Witness ==
    /\ ev.op = "write" /\ ev.log = "error saving"
    /\ ~session[ev.user]
    /\ Has(photos, ev.user) /\ photos[ev.user].requestId = 2
    /\ ev.callId = 1
    /\ Has(latestPhotoTimestamp, ev.user)
    /\ latestPhotoTimestamp[ev.user] = 2500

\* C31 (SpecG): the broadcast is global. Every socket is registered under the
\* one stream 'general', and when a capture of any user succeeds, ws.send is
\* called with its envelope for every socket that is registered and OPEN at
\* that moment: each of them either gets the envelope or is the socket whose
\* send failed.
C31_BroadcastIsGlobal ==
    [][/\ DOMAIN activeStreams' \subseteq {General}
       /\ \A u \in Users :
             Cached(u) =>
                 \A w \in OpenClients :
                     \/ /\ InSeq(ev'.sent, w)
                        /\ received'[w] = Append(received[w], ev'.callId)
                     \/ InSeq(ev'.failed, w)]_vars

\* The same without the broadcasts in which a send fails: when a capture of
\* any user succeeds and no send throws, every socket that is registered and
\* OPEN gets the envelope, whoever the user is.
C31_GlobalWhenNoSendFails ==
    [][/\ DOMAIN activeStreams' \subseteq {General}
       /\ \A u \in Users :
             (Cached(u) /\ ev'.failed = <<>>) =>
                 \A w \in OpenClients :
                     /\ InSeq(ev'.sent, w)
                     /\ received'[w] = Append(received[w], ev'.callId)]_vars

\* the peer of one socket has got the photo of u1 and then the photo of u2
C31_BothUsersReachOnePeer ==
    /\ ev.op = "complete" /\ ev.result = "resolved" /\ ev.user = "u2"
    /\ Has(photos, "u1") /\ Has(photos, "u2")
    /\ \E w \in Sockets :
          received[w] = <<photos["u1"].requestId, photos["u2"].requestId>>

====
